---- MODULE Spec2Model ----
(***************************************************************************)
(* Announcements router of the High School Management System API           *)
(* (src/src/backend/routers/announcements.py).                             *)
(*                                                                         *)
(* State: the announcements collection, the ObjectId generator of the      *)
(* store, the server clock, the update handler that sits between its       *)
(* update_one and its find_one, and the response of the handler that has   *)
(* just run.  One action per endpoint; every store call is atomic.         *)
(*                                                                         *)
(* Strings are sequences of one-character strings so that the store's      *)
(* byte-wise string comparison and Python's parsing can both be computed.  *)
(* A timestamp "YYYY-MM-DD<sep>HH:MM:SS[offset]" is abbreviated to          *)
(* <<day digit, sep, hour digit>> with an optional fourth character:       *)
(* "Z", or "+" standing for the numeric offset "+00:00".                   *)
(***************************************************************************)
EXTENDS Integers, Sequences, FiniteSets, TLC

VARIABLES
  announcements,  \* announcements_collection: ObjectId -> document (line 10)
  nextId,         \* the ObjectId insert_one assigns next (lines 95-96)
  now,            \* datetime.now() (lines 29, 77, 92, 118, 142)
  pending,        \* update requests between update_one and find_one (lines 135-149)
  resp            \* what the handler that just ran returned or raised

vars == <<announcements, nextId, now, pending, resp>>

(* ------------------------------ bounds --------------------------------- *)
MaxAnnouncements == 2
MaxNow == 1

(* --------------------------- string helpers ---------------------------- *)
\* Python None (start_date default, find_one miss)
None == <<"None">>
\* a key the document does not have (updated_at, updated_by before an update)
Missing == <<"missing">>
MissingName == "<missing>"

Digits == <<"0", "1", "2", "3", "4", "5", "6", "7", "8", "9">>
HexDigits == Digits \o <<"a", "b", "c", "d", "e", "f">>
Hours == {0, 1}
HoursPerDay == Cardinality(Hours)

DigitVal(c) == (CHOOSE i \in 1..Len(Digits) : Digits[i] = c) - 1
IsDigit(c) == \E i \in 1..Len(Digits) : Digits[i] = c
IsHex(c) == \E i \in 1..Len(HexDigits) : HexDigits[i] = c
HexVal(c) == (CHOOSE i \in 1..Len(HexDigits) : HexDigits[i] = c) - 1

\* byte value of a character (ASCII), the order the store compares strings by
Code(c) ==
  CASE c = " " -> 32
    [] c = "+" -> 43
    [] IsDigit(c) -> 48 + DigitVal(c)
    [] c = "T" -> 84
    [] c = "Z" -> 90
    [] OTHER -> 120

RECURSIVE StrLess(_, _)
StrLess(a, b) ==
  IF b = <<>> THEN FALSE
  ELSE IF a = <<>> THEN TRUE
  ELSE IF Code(Head(a)) # Code(Head(b)) THEN Code(Head(a)) < Code(Head(b))
  ELSE StrLess(Tail(a), Tail(b))

StrLte(a, b) == a = b \/ StrLess(a, b)
StrGte(a, b) == StrLte(b, a)

\* str.replace('Z', '+00:00')
ReplaceZ(s) == [i \in 1..Len(s) |-> IF s[i] = "Z" THEN "+" ELSE s[i]]

\* datetime.isoformat() of a naive datetime
IsoFormat(t) == <<Digits[(t \div HoursPerDay) + 1], "T", Digits[(t % HoursPerDay) + 1]>>

\* datetime.fromisoformat: any single separator character, optional offset
ParseError == [ok |-> FALSE, aware |-> FALSE, t |-> 0]
FromIsoFormat(s) ==
  IF /\ Len(s) \in {3, 4}
     /\ IsDigit(s[1])
     /\ IsDigit(s[3])
     /\ DigitVal(s[3]) \in Hours
     /\ (Len(s) = 4 => s[4] = "+")
  THEN [ok |-> TRUE, aware |-> Len(s) = 4,
        t |-> DigitVal(s[1]) * HoursPerDay + DigitVal(s[3])]
  ELSE ParseError

\* Python truthiness of an Optional[str]
Truthy(s) == s # None /\ s # <<>>

(* ------------------------------ ObjectId ------------------------------- *)
\* str(ObjectId): fixed-width lower-case hex
IdStr(n) == <<HexDigits[(n \div Len(HexDigits)) + 1], HexDigits[(n % Len(HexDigits)) + 1]>>
\* ObjectId(announcement_id) accepts exactly the fixed-width hex strings
ValidObjectId(s) == Len(s) = Len(IdStr(0)) /\ \A i \in 1..Len(s) : IsHex(s[i])
ObjectId(s) == HexVal(s[1]) * Len(HexDigits) + HexVal(s[2])

(* ------------------------------- inputs -------------------------------- *)
Teachers == {"alice"}
Usernames == {"alice", "mallory"}
Messages == {"m1", "m2"}
NaiveDates == {<<"0", " ", "1">>, <<"1", "T", "0">>}
ZDates == {<<"0", "T", "1", "Z">>, <<"1", "T", "0", "Z">>}
BadDates == {<<"x">>}
ExpirationInputs == NaiveDates \cup ZDates \cup BadDates
StartInputs == NaiveDates \cup ZDates \cup BadDates \cup {None, <<>>}
IdInputs == {IdStr(n) : n \in 0..(MaxAnnouncements - 1)} \cup {<<"z", "z">>}

(* ------------------------------ responses ------------------------------ *)
NoResp == [op |-> "none", status |-> 0, detail |-> "", kind |-> "none",
           username |-> "", id |-> <<>>, message |-> "", start_date |-> None,
           expiration_date |-> <<>>, at |-> 0, docs |-> {}]

Request(op, username, id, message, start_date, expiration_date) ==
  [NoResp EXCEPT !.op = op, !.username = username, !.id = id,
                 !.message = message, !.start_date = start_date,
                 !.expiration_date = expiration_date, !.at = now]

\* raise HTTPException(status_code, detail)
HTTPException(req, status, detail) ==
  [req EXCEPT !.status = status, !.detail = detail, !.kind = "error"]
\* an exception no handler catches: the framework answers 500
Uncaught(req, exc) ==
  [req EXCEPT !.status = 500, !.detail = exc, !.kind = "fault"]
Ok(req, kind, docs) ==
  [req EXCEPT !.status = 200, !.kind = kind, !.docs = docs]

(* ------------------------------ the store ------------------------------ *)
serialize_announcement(a) ==
  [id |-> IdStr(a._id), message |-> a.message, start_date |-> a.start_date,
   expiration_date |-> a.expiration_date, created_by |-> a.created_by,
   created_at |-> a.created_at, updated_by |-> a.updated_by,
   updated_at |-> a.updated_at]

\* the query of get_active_announcements, evaluated by the store on strings
ActiveFilter(a, current_time) ==
  /\ \/ a.start_date = None
     \/ (a.start_date # None /\ StrLte(a.start_date, current_time))
  /\ StrGte(a.expiration_date, current_time)

\* the date validation shared by create and update: "ok" or the failure
DatesOk == [kind |-> "ok", status |-> 200, detail |-> ""]
DateError(detail) == [kind |-> "error", status |-> 400, detail |-> detail]
DateTypeError == [kind |-> "fault", status |-> 500, detail |-> "TypeError"]

ValidateDates(expiration_date, start_date) ==
  LET exp_date == FromIsoFormat(ReplaceZ(expiration_date))
      start_dt == FromIsoFormat(ReplaceZ(start_date))
  IN  IF ~exp_date.ok THEN DateError("Invalid date format")
      ELSE IF exp_date.aware THEN DateTypeError
      ELSE IF exp_date.t <= now THEN DateError("Expiration date must be in the future")
      ELSE IF ~Truthy(start_date) THEN DatesOk
      ELSE IF ~start_dt.ok THEN DateError("Invalid date format")
      ELSE IF start_dt.aware # exp_date.aware THEN DateTypeError
      ELSE IF start_dt.t >= exp_date.t THEN DateError("Start date must be before expiration date")
      ELSE DatesOk

\* teachers_collection.find_one({"_id": username}) finds a teacher
IsTeacher(username) == username \in Teachers

\* (variant) the store hands out the lowest identifier no document holds
ReusedId(store, next) ==
  CHOOSE i \in 0..next : i \notin DOMAIN store /\ \A j \in 0..(i - 1) : j \in DOMAIN store

\* the ObjectId insert_one gives a document that has none: never one given before
InsertedId(store, next) == next

\* insert_one
InsertOne(store, oid, doc) ==
  [i \in DOMAIN store \cup {oid} |-> IF i = oid THEN doc ELSE store[i]]

\* (variant) the $set reaches every document, as update_many with an empty filter
UpdateMany(store, oid, req) ==
  [i \in DOMAIN store |-> [store[i] EXCEPT !.message = req.message,
                                           !.start_date = req.start_date,
                                           !.expiration_date = req.expiration_date,
                                           !.updated_by = req.username,
                                           !.updated_at = IsoFormat(now)]]

\* update_one({"_id": obj_id}, {"$set": {...}}): no upsert
UpdateOne(store, oid, req) ==
  IF oid \in DOMAIN store
  THEN [store EXCEPT ![oid] = [@ EXCEPT !.message = req.message,
                                        !.start_date = req.start_date,
                                        !.expiration_date = req.expiration_date,
                                        !.updated_by = req.username,
                                        !.updated_at = IsoFormat(now)]]
  ELSE store
\* result.matched_count
MatchedCount(store, oid) == IF oid \in DOMAIN store THEN 1 ELSE 0

\* delete_one({"_id": obj_id})
DeleteOne(store, oid) == [i \in DOMAIN store \ {oid} |-> store[i]]
\* result.deleted_count
DeletedCount(store, oid) == IF oid \in DOMAIN store THEN 1 ELSE 0

\* find_one({"_id": obj_id}) followed by serialize_announcement and return
ReadBack(store, oid, req) ==
  IF oid \in DOMAIN store
  THEN Ok(req, "doc", {serialize_announcement(store[oid])})
  ELSE Ok(req, "null", {})

\* (variant) the dates are validated before the teacher lookup
UpdateCheckDatesFirst(req) ==
  LET v == ValidateDates(req.expiration_date, req.start_date)
  IN  IF v.kind = "error" THEN HTTPException(req, v.status, v.detail)
      ELSE IF v.kind = "fault" THEN Uncaught(req, v.detail)
      ELSE IF ~IsTeacher(req.username) THEN HTTPException(req, 401, "Unauthorized")
      ELSE IF ~ValidObjectId(req.id) THEN HTTPException(req, 400, "Invalid announcement ID")
      ELSE req

\* update_announcement before its first store call: the error it raises, or the
\* request itself when the handler goes on
UpdateCheck(req) ==
  LET v == ValidateDates(req.expiration_date, req.start_date)
  IN  IF ~IsTeacher(req.username) THEN HTTPException(req, 401, "Unauthorized")
      ELSE IF v.kind = "error" THEN HTTPException(req, v.status, v.detail)
      ELSE IF v.kind = "fault" THEN Uncaught(req, v.detail)
      ELSE IF ~ValidObjectId(req.id) THEN HTTPException(req, 400, "Invalid announcement ID")
      ELSE req

\* delete_announcement before its store call
DeleteCheck(req) ==
  IF ~IsTeacher(req.username) THEN HTTPException(req, 401, "Unauthorized")
  ELSE IF ~ValidObjectId(req.id) THEN HTTPException(req, 400, "Invalid announcement ID")
  ELSE req

\* create_announcement up to the insert
CreateCheck(req) ==
  LET v == ValidateDates(req.expiration_date, req.start_date)
  IN  IF ~IsTeacher(req.username) THEN HTTPException(req, 401, "Unauthorized")
      ELSE IF v.kind = "error" THEN HTTPException(req, v.status, v.detail)
      ELSE IF v.kind = "fault" THEN Uncaught(req, v.detail)
      ELSE req

\* the dict create_announcement builds and inserts
NewAnnouncement(oid, req) ==
  [_id |-> oid, message |-> req.message, start_date |-> req.start_date,
   expiration_date |-> req.expiration_date, created_by |-> req.username,
   created_at |-> IsoFormat(now), updated_by |-> MissingName, updated_at |-> Missing]

Init ==
  /\ announcements = [i \in {} |-> 0]
  /\ nextId = 0
  /\ now = 0
  /\ pending = {}
  /\ resp = NoResp

\* GET /announcements
get_active_announcements ==
  /\ resp = NoResp
  /\ resp' = Ok(Request("list_active", "", <<>>, "", None, <<>>), "list",
                {serialize_announcement(announcements[i]) :
                   i \in {j \in DOMAIN announcements :
                            ActiveFilter(announcements[j], IsoFormat(now))}})
  /\ UNCHANGED <<announcements, nextId, now, pending>>

\* GET /announcements/all
get_all_announcements(username) ==
  LET req == Request("list_all", username, <<>>, "", None, <<>>)
  IN  /\ resp = NoResp
      /\ resp' = IF ~IsTeacher(username)
                 THEN HTTPException(req, 401, "Unauthorized")
                 ELSE Ok(req, "list", {serialize_announcement(announcements[i]) :
                                         i \in DOMAIN announcements})
      /\ UNCHANGED <<announcements, nextId, now, pending>>

\* POST /announcements
create_announcement(message, expiration_date, username, start_date) ==
  LET req == Request("create", username, <<>>, message, start_date, expiration_date)
      chk == CreateCheck(req)
      oid == InsertedId(announcements, nextId)
      doc == NewAnnouncement(oid, req)
  IN  /\ resp = NoResp
      /\ IF chk.kind # "none"
         THEN /\ resp' = chk
              /\ UNCHANGED <<announcements, nextId>>
         ELSE /\ nextId < MaxAnnouncements
              /\ announcements' = InsertOne(announcements, oid, doc)
              /\ nextId' = nextId + 1
              /\ resp' = Ok(req, "doc", {serialize_announcement(doc)})
      /\ UNCHANGED <<now, pending>>

\* PUT /announcements/{announcement_id}, no other request between its store calls
update_announcement(announcement_id, message, expiration_date, username, start_date) ==
  LET req == Request("update", username, announcement_id, message, start_date,
                     expiration_date)
      chk == UpdateCheck(req)
  IN  /\ resp = NoResp
      /\ IF chk.kind # "none"
         THEN /\ resp' = chk
              /\ UNCHANGED announcements
         ELSE /\ announcements' = UpdateOne(announcements, ObjectId(announcement_id), req)
              /\ resp' = IF MatchedCount(announcements, ObjectId(announcement_id)) = 0
                         THEN HTTPException(req, 404, "Announcement not found")
                         ELSE ReadBack(announcements', ObjectId(announcement_id), req)
      /\ UNCHANGED <<nextId, now, pending>>

\* PUT, first store call: update_one; the handler then waits to read back
update_begin(announcement_id, message, expiration_date, username, start_date) ==
  LET req == Request("update", username, announcement_id, message, start_date,
                     expiration_date)
      chk == UpdateCheck(req)
  IN  /\ resp = NoResp
      /\ pending = {}
      /\ IF chk.kind # "none"
         THEN /\ resp' = chk
              /\ UNCHANGED <<announcements, pending>>
         ELSE /\ announcements' = UpdateOne(announcements, ObjectId(announcement_id), req)
              /\ IF MatchedCount(announcements, ObjectId(announcement_id)) = 0
                 THEN /\ resp' = HTTPException(req, 404, "Announcement not found")
                      /\ UNCHANGED pending
                 ELSE /\ pending' = {req}
                      /\ UNCHANGED resp
      /\ UNCHANGED <<nextId, now>>

\* PUT, second store call: find_one, serialize, return
update_finish ==
  /\ resp = NoResp
  /\ \E req \in pending :
       /\ resp' = ReadBack(announcements, ObjectId(req.id), req)
       /\ pending' = pending \ {req}
  /\ UNCHANGED <<announcements, nextId, now>>

\* DELETE /announcements/{announcement_id}
delete_announcement(announcement_id, username) ==
  LET req == Request("delete", username, announcement_id, "", None, <<>>)
      chk == DeleteCheck(req)
  IN  /\ resp = NoResp
      /\ IF chk.kind # "none"
         THEN /\ resp' = chk
              /\ UNCHANGED announcements
         ELSE /\ announcements' = DeleteOne(announcements, ObjectId(announcement_id))
              /\ resp' = IF DeletedCount(announcements, ObjectId(announcement_id)) = 0
                         THEN HTTPException(req, 404, "Announcement not found")
                         ELSE Ok(req, "confirmation", {})
      /\ UNCHANGED <<nextId, now, pending>>

Tick ==
  /\ resp = NoResp
  /\ now < MaxNow
  /\ now' = now + 1
  /\ UNCHANGED <<announcements, nextId, pending, resp>>

\* the response of the handler that has just run goes out to the client
Deliver ==
  /\ resp # NoResp
  /\ resp' = NoResp
  /\ UNCHANGED <<announcements, nextId, now, pending>>

ListActive == get_active_announcements
ListAll == \E u \in Usernames : get_all_announcements(u)
Create ==
  \E m \in Messages, e \in ExpirationInputs, u \in Usernames, s \in StartInputs :
    create_announcement(m, e, u, s)
Update ==
  \E i \in IdInputs, m \in Messages, e \in ExpirationInputs, u \in Usernames,
     s \in StartInputs :
    update_announcement(i, m, e, u, s)
Delete == \E i \in IdInputs, u \in Usernames : delete_announcement(i, u)

Next == ListActive \/ ListAll \/ Create \/ Update \/ Delete \/ Tick \/ Deliver

Spec == Init /\ [][Next]_vars

\* concurrent requests: an update is two store calls, and other requests run
\* between them
ConcExpirations == {<<"0", " ", "1">>, <<"1", "T", "0">>, <<"1", "T", "0", "Z">>, <<"x">>}
ConcStarts == {None, <<"1", "T", "0">>}
ConcCreate ==
  \E m \in Messages, e \in ConcExpirations, u \in Usernames, s \in ConcStarts :
    create_announcement(m, e, u, s)
UpdateBegin ==
  \E i \in IdInputs, m \in Messages, e \in ConcExpirations, u \in Usernames,
     s \in ConcStarts :
    update_begin(i, m, e, u, s)
UpdateFinish == update_finish

NextConc ==
  ListActive \/ ListAll \/ ConcCreate \/ UpdateBegin \/ UpdateFinish \/ Delete
    \/ Tick \/ Deliver

SpecConc == Init /\ [][NextConc]_vars

(* ------------------------------- claims -------------------------------- *)
\* a handler ran in this step and answered (update_finish only reads back)
Answered == resp = NoResp /\ resp' # NoResp
HandlerStep == Answered /\ pending' = pending
\* the point in time a well-formed timestamp string denotes
WellFormed(s) == FromIsoFormat(ReplaceZ(s)).ok
Aware(s) == FromIsoFormat(ReplaceZ(s)).aware
InstantOf(s) == FromIsoFormat(ReplaceZ(s)).t
Ids == 0..(MaxAnnouncements - 1)
SerializedStore == {serialize_announcement(announcements[i]) : i \in DOMAIN announcements}

\* C1: list_all, create, update and delete called with a username that is no
\* teacher answer 401 Unauthorized whatever the other arguments are, and leave
\* the collection as it was.
C1_UnauthorizedFirst ==
  [][(HandlerStep /\ resp'.op \in {"list_all", "create", "update", "delete"}
        /\ ~(resp'.username \in Teachers))
       => (resp'.status = 401 /\ resp'.detail = "Unauthorized"
             /\ announcements' = announcements)]_vars

C1_Witness ==
  /\ resp.op = "update"
  /\ resp.username = "mallory"
  /\ resp.status = 401
  /\ ~ValidObjectId(resp.id)
  /\ ~WellFormed(resp.expiration_date)
  /\ DOMAIN announcements # {}

\* C2: create by a teacher with a well-formed expiration_date that is not after
\* the current time answers 400 "Expiration date must be in the future" and
\* stores nothing, also when the date carries a trailing "Z".
C2_PastExpirationRejected ==
  [][(HandlerStep /\ resp'.op = "create" /\ resp'.username \in Teachers
        /\ WellFormed(resp'.expiration_date)
        /\ InstantOf(resp'.expiration_date) <= now)
       => (resp'.status = 400
             /\ resp'.detail = "Expiration date must be in the future"
             /\ announcements' = announcements)]_vars

\* C3: create by a teacher with a Z-suffixed future start_date and a later
\* Z-suffixed expiration_date succeeds and stores the announcement; a list_active
\* right after does not select it, a list_all right after does.
C3_ZSuffixedCreateSucceeds ==
  (/\ resp.op = "create"
   /\ resp.username \in Teachers
   /\ resp.start_date = <<"0", "T", "1", "Z">>
   /\ resp.expiration_date = <<"1", "T", "0", "Z">>
   /\ InstantOf(resp.start_date) > resp.at)
  => /\ resp.status = 200
     /\ \E i \in DOMAIN announcements :
          /\ serialize_announcement(announcements[i]) \in resp.docs
          /\ announcements[i].start_date = resp.start_date
          /\ announcements[i].expiration_date = resp.expiration_date
          /\ ~ActiveFilter(announcements[i], IsoFormat(now))

\* C4: list_active at time T returns exactly the stored announcements whose
\* start_date is absent or not after T and whose expiration_date is not before
\* T, the dates taken as points in time.
IsActive(a, t) ==
  /\ (~Truthy(a.start_date) \/ InstantOf(a.start_date) <= t)
  /\ InstantOf(a.expiration_date) >= t

C4_ListActiveByInstant ==
  resp.op = "list_active"
    => /\ resp.status = 200
       /\ resp.docs = {serialize_announcement(announcements[i]) :
                         i \in {j \in DOMAIN announcements :
                                  IsActive(announcements[j], resp.at)}}

\* C5: every stored announcement with a start_date has start_date before
\* expiration_date, and a create or update by a teacher whose start_date is not
\* before its expiration_date answers 400.
C5_StartBeforeExpiration ==
  /\ \A i \in DOMAIN announcements :
       Truthy(announcements[i].start_date)
         => /\ WellFormed(announcements[i].start_date)
            /\ WellFormed(announcements[i].expiration_date)
            /\ InstantOf(announcements[i].start_date)
                 < InstantOf(announcements[i].expiration_date)
  /\ (/\ resp.op \in {"create", "update"}
      /\ resp.username \in Teachers
      /\ Truthy(resp.start_date)
      /\ WellFormed(resp.start_date)
      /\ WellFormed(resp.expiration_date)
      /\ Aware(resp.start_date) = Aware(resp.expiration_date)
      /\ InstantOf(resp.start_date) >= InstantOf(resp.expiration_date))
     => resp.status = 400

\* C6: an announcement a delete has removed never comes back: its id is never
\* stored again, list_all never shows it, and a later delete or update of it (by
\* a teacher, with dates that pass validation) answers 404.
WasDeleted(i) == i < nextId /\ i \notin DOMAIN announcements

C7_CreateListRoundTrip ==
  /\ (resp.op = "create" /\ resp.status = 200)
       => \E i \in DOMAIN announcements :
            /\ resp.docs = {serialize_announcement(announcements[i])}
            /\ i = nextId - 1
            /\ announcements[i].created_by = resp.username
            /\ announcements[i].message = resp.message
            /\ announcements[i].start_date = resp.start_date
            /\ announcements[i].expiration_date = resp.expiration_date
  /\ (resp.op = "list_all" /\ resp.status = 200) => resp.docs = SerializedStore
  /\ resp.op = "list_active"
       => \A i \in DOMAIN announcements :
            announcements[i].updated_by = MissingName
              => (serialize_announcement(announcements[i]) \in resp.docs
                    <=> /\ (Truthy(announcements[i].start_date)
                              => InstantOf(announcements[i].start_date) <= resp.at)
                        /\ resp.at <= InstantOf(announcements[i].expiration_date))

\* C8: update or delete by a teacher with a malformed announcement_id answers
\* 400, never 404, and changes nothing; an update whose dates are invalid as
\* well reports the date error, not "Invalid announcement ID".
C8_MalformedIdIsInvalidInput ==
  [][(HandlerStep /\ resp'.op \in {"update", "delete"}
        /\ resp'.username \in Teachers /\ ~ValidObjectId(resp'.id))
       => /\ resp'.status = 400
          /\ announcements' = announcements
          /\ (resp'.op = "update"
                /\ ValidateDates(resp'.expiration_date, resp'.start_date).kind = "error")
               => resp'.detail # "Invalid announcement ID"]_vars

\* C9: a successful update changes the announcement with that id only: message,
\* start_date and expiration_date become the given values and updated_by the
\* caller; id, created_by and created_at stay; the other announcements and their
\* number stay; an update answering 401, 400 or 404 changes nothing.
UpdateApplied(req) ==
  \/ pending' # pending /\ req \in pending'
  \/ HandlerStep /\ resp'.op = "update" /\ resp'.status = 200 /\ req = resp'

C9_UpdateFrame ==
  [][/\ \A req \in pending' \cup {resp'} :
          UpdateApplied(req)
            => LET oid == ObjectId(req.id)
               IN  /\ DOMAIN announcements' = DOMAIN announcements
                   /\ oid \in DOMAIN announcements
                   /\ \A i \in DOMAIN announcements \ {oid} :
                        announcements'[i] = announcements[i]
                   /\ announcements'[oid].message = req.message
                   /\ announcements'[oid].start_date = req.start_date
                   /\ announcements'[oid].expiration_date = req.expiration_date
                   /\ announcements'[oid].updated_by = req.username
                   /\ announcements'[oid]._id = announcements[oid]._id
                   /\ announcements'[oid].created_by = announcements[oid].created_by
                   /\ announcements'[oid].created_at = announcements[oid].created_at
     /\ (HandlerStep /\ resp'.op = "update" /\ resp'.status \in {400, 401, 404})
          => announcements' = announcements]_vars

C9_Witness ==
  \E req \in pending :
    /\ Cardinality(DOMAIN announcements) = 2
    /\ ObjectId(req.id) \in DOMAIN announcements
    /\ announcements[ObjectId(req.id)].message = req.message
    /\ announcements[ObjectId(req.id)].created_at # announcements[ObjectId(req.id)].updated_at
    /\ \E i \in DOMAIN announcements : announcements[i].message # req.message

\* C10: with updates and deletes of one announcement_id interleaved, an update
\* that passed its checks answers with a typed error (401, 400, 404) or with the
\* document of that id read back from the store, never with an empty result.
C10_UpdateNeverReturnsNull ==
  (resp.op = "update" /\ resp.kind # "fault")
    => \/ resp.kind = "error" /\ resp.status \in {400, 401, 404}
       \/ /\ resp.kind = "doc"
          /\ \E d \in resp.docs : d.id = resp.id /\ resp.docs = {d}
====
